---- MODULE Spec2Model ----
(***************************************************************************)
(* A model of src/huffman.cpp: the HuffmanCoding class (frequency table,   *)
(* Huffman tree built with a std::priority_queue, code table, header,      *)
(* bit packer and bit unpacker) and the two operations main() calls,       *)
(* compress and decompress.                                                *)
(*                                                                         *)
(* Build assumptions (x86-64, LP64, GNU libstdc++): char is signed and 8   *)
(* bits, unsigned is 32 bits, size_t is 64 bits, integers are written in   *)
(* host byte order (little-endian), and std::priority_queue is the binary  *)
(* heap of std::push_heap / std::pop_heap.                                 *)
(*                                                                         *)
(* Files are sequences of bytes 0..255.  A shared_ptr<HuffmanNode> is an    *)
(* index into the sequence `nodes` of allocated nodes; 0 is nullptr.       *)
(***************************************************************************)
EXTENDS Integers, Sequences, FiniteSets, TLC

VARIABLES
    frequencyMap,   \* HuffmanCoding::frequencyMap  (symbol -> count)
    huffmanCodes,   \* HuffmanCoding::huffmanCodes  (symbol -> bit string)
    nodes,          \* the HuffmanNode objects reachable from treeRoot
    treeRoot,       \* HuffmanCoding::treeRoot      (index into nodes, 0 = nullptr)
    call,           \* the last compress/decompress call: operation, files, outcome
    disk,           \* the files left by the last compress: its input and its output
    pc,             \* position inside the stepwise compress/decode pipeline
    pq,             \* buildHuffmanTree's local priority queue (heap vector)
    occ,            \* stepwise pipeline: occurrences of each symbol in the input
    todo,           \* stepwise pipeline: keys of frequencyMap not yet pushed
    merges,         \* stepwise pipeline: merge steps done, and the last one
    totalChars      \* decodeData's totalChars

vars == <<frequencyMap, huffmanCodes, nodes, treeRoot, call, disk,
          pc, pq, occ, todo, merges, totalChars>>

----------------------------------------------------------------------------
(* Bounds of the model *)

\* longest input file of the byte-level specifications
MaxLen == 4
\* largest small occurrence count of the stepwise specification
MaxOcc == 3
\* longest input file of the specification that reuses one object
MaxReuseLen == 2
\* largest indeterminate header count tried for an uninitialized mapSize
MaxGarbageSize == 2

(* Program constants *)

\* `unsigned frequency`: 32 bits
UnsignedBits == 32
\* sizeof(size_t), the width of the header's count field
SizeTBytes == 8
\* sizeof(unsigned), the width of a header frequency
UnsignedBytes == 4
\* '$', the data of every internal node
Dollar == 36

\* `long long totalChars`: 64 bits
LongLongBits == 64

\* The symbols the inputs are drawn from: '$', 'a' and the byte 0xC8, which
\* is negative as a signed char.
Symbols == {36, 97, 200}

EmptyMap == [x \in {} |-> 0]

----------------------------------------------------------------------------
(* Counts.  A count is held as LongLongBits bits, in 16-bit limbs, least   *)
(* significant first, so that the values around 2^32 on which `unsigned`   *)
(* wraps are within reach.  Unsigned(x) is the conversion to `unsigned`,   *)
(* x modulo 2^UnsignedBits.                                                *)

LimbBase == 2 ^ 16
WideLimbs == LongLongBits \div 16
UnsignedLimbs == UnsignedBits \div 16

\* the count n, for n below 2^31
FromNat(n) ==
    [i \in 1 .. WideLimbs |->
        IF i = 1 THEN n % LimbBase
        ELSE IF i = 2 THEN n \div LimbBase ELSE 0]

\* the natural number x, for x below 2^31
ToNat(x) == x[1] + LimbBase * x[2]

RECURSIVE AddFrom(_, _, _, _)
AddFrom(a, b, i, carry) ==
    IF i > WideLimbs THEN <<>>
    ELSE LET t == a[i] + b[i] + carry
         IN  <<t % LimbBase>> \o AddFrom(a, b, i + 1, t \div LimbBase)

Add(a, b) == AddFrom(a, b, 1, 0)

RECURSIVE LessFrom(_, _, _)
LessFrom(a, b, i) ==
    IF i = 0 THEN FALSE
    ELSE IF a[i] /= b[i] THEN a[i] < b[i]
    ELSE LessFrom(a, b, i - 1)

Less(a, b) == LessFrom(a, b, WideLimbs)

Unsigned(x) == [i \in 1 .. WideLimbs |-> IF i <= UnsignedLimbs THEN x[i] ELSE 0]

Zero == FromNat(0)
One == FromNat(1)

----------------------------------------------------------------------------
(* std::map<char, ...>: iteration in ascending key order, keys being char *)

CharValue(b) == IF b >= 128 THEN b - 256 ELSE b

MinKey(S) == CHOOSE k \in S : \A j \in S : CharValue(k) <= CharValue(j)

RECURSIVE KeysAscending(_)
KeysAscending(S) ==
    IF S = {} THEN <<>>
    ELSE LET k == MinKey(S) IN <<k>> \o KeysAscending(S \ {k})

MapKeys(m) == KeysAscending(DOMAIN m)

\* m[k] = v (operator[] followed by assignment)
MapPut(m, k, v) == (k :> v) @@ m

----------------------------------------------------------------------------
(* struct HuffmanNode and struct CompareNodes *)

HuffmanNode(data, frequency) ==
    [data |-> data, frequency |-> frequency, left |-> 0, right |-> 0]

CompareNodes(l, r) == Less(r.frequency, l.frequency)

IsLeaf(n) == n.left = 0 /\ n.right = 0

----------------------------------------------------------------------------
(* std::priority_queue<shared_ptr<HuffmanNode>, vector<...>, CompareNodes>  *)
(* Positions are 0-based as in the library; position i is v[i + 1].        *)

RECURSIVE push_heap(_, _, _, _)
push_heap(ns, v, hole, value) ==
    LET parent == (hole - 1) \div 2 IN
    IF hole > 0 /\ CompareNodes(ns[v[parent + 1]], ns[value])
    THEN push_heap(ns, [v EXCEPT ![hole + 1] = v[parent + 1]], parent, value)
    ELSE [v EXCEPT ![hole + 1] = value]

RECURSIVE adjust_heap(_, _, _, _, _)
adjust_heap(ns, v, hole, len, value) ==
    IF hole < (len - 1) \div 2
    THEN LET r == 2 * (hole + 1)
             c == IF CompareNodes(ns[v[r + 1]], ns[v[r]]) THEN r - 1 ELSE r
         IN  adjust_heap(ns, [v EXCEPT ![hole + 1] = v[c + 1]], c, len, value)
    ELSE IF len % 2 = 0 /\ hole = (len - 2) \div 2
    THEN LET c == 2 * (hole + 1) - 1
         IN  push_heap(ns, [v EXCEPT ![hole + 1] = v[c + 1]], c, value)
    ELSE push_heap(ns, v, hole, value)

pq_push(ns, v, x) == push_heap(ns, Append(v, x), Len(v), x)

pq_top(v) == v[1]

pq_pop(ns, v) ==
    IF Len(v) <= 1 THEN <<>>
    ELSE adjust_heap(ns, SubSeq(v, 1, Len(v) - 1), 0, Len(v) - 1, v[Len(v)])

----------------------------------------------------------------------------
(* buildFrequencyTable *)

\* n executions of `frequencyMap[character]++` for one character
CountRun(fm, c, n) ==
    MapPut(fm, c, Unsigned(Add(IF c \in DOMAIN fm THEN fm[c] ELSE Zero, n)))

RECURSIVE CountLoop(_, _)
CountLoop(fm, input) ==
    IF input = <<>> THEN fm
    ELSE CountLoop(CountRun(fm, Head(input), One), Tail(input))

\* the function without its frequencyMap.clear()
buildFrequencyTable_NoClear(fm, input) == CountLoop(fm, input)

buildFrequencyTable(fm, input) == CountLoop(EmptyMap, input)

----------------------------------------------------------------------------
(* buildHuffmanTree, on b = [nodes, pq] *)

\* one iteration of the loop over frequencyMap: make_shared and pq.push
LeafStep(b, key, val) ==
    LET ns == Append(b.nodes, HuffmanNode(key, val))
    IN  [nodes |-> ns, pq |-> pq_push(ns, b.pq, Len(ns))]

RECURSIVE PushLeaves(_, _, _)
PushLeaves(b, fm, keys) ==
    IF keys = <<>> THEN b
    ELSE PushLeaves(LeafStep(b, Head(keys), fm[Head(keys)]), fm, Tail(keys))

\* the build without the single-symbol edge case
DummyParentStep_Skipped(b) == b

\* the single-symbol edge case
DummyParentStep(b) ==
    LET singleNode == pq_top(b.pq)
        q1 == pq_pop(b.nodes, b.pq)
        dummyParent == [HuffmanNode(Dollar, b.nodes[singleNode].frequency)
                          EXCEPT !.left = singleNode]
        ns == Append(b.nodes, dummyParent)
    IN  [nodes |-> ns, pq |-> pq_push(ns, q1, Len(ns))]

\* one iteration of the main loop
MergeStep(b) ==
    LET left == pq_top(b.pq)
        q1 == pq_pop(b.nodes, b.pq)
        right == pq_top(q1)
        q2 == pq_pop(b.nodes, q1)
        newNode == [HuffmanNode(Dollar,
                       Unsigned(Add(b.nodes[left].frequency,
                                    b.nodes[right].frequency)))
                      EXCEPT !.left = left, !.right = right]
        ns == Append(b.nodes, newNode)
    IN  [nodes |-> ns, pq |-> pq_push(ns, q2, Len(ns))]

RECURSIVE MergeLoop(_)
MergeLoop(b) == IF Len(b.pq) > 1 THEN MergeLoop(MergeStep(b)) ELSE b

\* The whole function: the new value of (nodes, treeRoot).
buildHuffmanTree(fm) ==
    LET b0 == PushLeaves([nodes |-> <<>>, pq |-> <<>>], fm, MapKeys(fm))
    IN  IF b0.pq = <<>> THEN [nodes |-> <<>>, root |-> 0]
        ELSE LET b1 == IF Len(b0.pq) = 1 THEN DummyParentStep(b0) ELSE b0
                 b2 == MergeLoop(b1)
             IN  [nodes |-> b2.nodes, root |-> pq_top(b2.pq)]

----------------------------------------------------------------------------
(* generateCodes: bit strings are sequences of 0 and 1 *)

RECURSIVE generateCodes(_, _, _, _)
generateCodes(ns, node, code, codes) ==
    IF node = 0 THEN codes
    ELSE LET c0 == IF IsLeaf(ns[node])
                   THEN MapPut(codes, ns[node].data, code)
                   ELSE codes
             c1 == generateCodes(ns, ns[node].left, Append(code, 0), c0)
         IN  generateCodes(ns, ns[node].right, Append(code, 1), c1)

----------------------------------------------------------------------------
(* Integers as the streams hold them: host byte order, least significant   *)
(* byte first                                                              *)

\* the `width` bytes of the count x
ToBytes(x, width) ==
    [i \in 1 .. width |->
        LET limb == x[(i + 1) \div 2]
        IN  IF i % 2 = 1 THEN limb % 256 ELSE limb \div 256]

\* the same bytes read most significant byte first
FromBytes_BigEndian(bytes) ==
    LET n == Len(bytes)
        ByteAt(i) == IF i <= n THEN bytes[n + 1 - i] ELSE 0
    IN  [k \in 1 .. WideLimbs |-> ByteAt(2 * k - 1) + 256 * ByteAt(2 * k)]

\* the count held in at most 8 bytes
FromBytes(bytes) ==
    LET ByteAt(i) == IF i <= Len(bytes) THEN bytes[i] ELSE 0
    IN  [k \in 1 .. WideLimbs |-> ByteAt(2 * k - 1) + 256 * ByteAt(2 * k)]

----------------------------------------------------------------------------
(* writeHeader *)

RECURSIVE WritePairs(_, _)
WritePairs(fm, keys) ==
    IF keys = <<>> THEN <<>>
    ELSE <<Head(keys)>> \o ToBytes(fm[Head(keys)], UnsignedBytes)
            \o WritePairs(fm, Tail(keys))

writeHeader(fm) ==
    ToBytes(FromNat(Cardinality(DOMAIN fm)), SizeTBytes)
        \o WritePairs(fm, MapKeys(fm))

\* the number of bytes writeHeader writes
HeaderLength(fm) ==
    SizeTBytes + Cardinality(DOMAIN fm) * (1 + UnsignedBytes)

----------------------------------------------------------------------------
(* writeCompressedData, on w = [buffer, bitCount, out, codes] *)

\* for (char bit : code)
RECURSIVE PackCode(_, _)
PackCode(w, code) ==
    IF code = <<>> THEN w
    ELSE LET buffer == (w.buffer * 2 + Head(code)) % 256
             bitCount == w.bitCount + 1
         IN  IF bitCount = 8
             THEN PackCode([w EXCEPT !.buffer = 0, !.bitCount = 0,
                                     !.out = Append(w.out, buffer)], Tail(code))
             ELSE PackCode([w EXCEPT !.buffer = buffer, !.bitCount = bitCount],
                           Tail(code))

\* while (inputFile.get(character)); huffmanCodes[character] inserts an empty
\* string for a character that has no code
RECURSIVE PackLoop(_, _)
PackLoop(w, input) ==
    IF input = <<>> THEN w
    ELSE LET c == Head(input)
             codes == IF c \in DOMAIN w.codes THEN w.codes
                      ELSE MapPut(w.codes, c, <<>>)
         IN  PackLoop(PackCode([w EXCEPT !.codes = codes], codes[c]), Tail(input))

\* the final byte written without the shift
FlushBuffer_NoShift(w) ==
    IF w.bitCount > 0 THEN Append(w.out, w.buffer) ELSE w.out

\* the final byte: the remaining bits, shifted left, zero bits after them
FlushBuffer(w) ==
    IF w.bitCount > 0
    THEN Append(w.out, (w.buffer * 2 ^ (8 - w.bitCount)) % 256)
    ELSE w.out

writeCompressedData(codes, input) ==
    LET w == PackLoop([buffer |-> 0, bitCount |-> 0, out |-> <<>>,
                       codes |-> codes], input)
    IN  [out |-> FlushBuffer(w), codes |-> w.codes]

----------------------------------------------------------------------------
(* std::ifstream: s = [pos, good].  A read that cannot be satisfied takes   *)
(* what is left and fails the stream; on a failed stream nothing is read.  *)

StreamRead(file, s, n) ==
    IF ~s.good THEN [ok |-> FALSE, bytes |-> <<>>, s |-> s]
    ELSE IF s.pos + n <= Len(file)
    THEN [ok |-> TRUE, bytes |-> SubSeq(file, s.pos + 1, s.pos + n),
          s |-> [s EXCEPT !.pos = s.pos + n]]
    ELSE [ok |-> FALSE, bytes |-> SubSeq(file, s.pos + 1, Len(file)),
          s |-> [pos |-> Len(file), good |-> FALSE]]

----------------------------------------------------------------------------
(* readHeader.  mapSize, character and frequency are uninitialized locals: *)
(* after a failed read they hold indeterminate values, which g supplies:   *)
(* g.size for mapSize and g.pairs[k] for the k-th iteration with a failed  *)
(* read.  h = [fm, s, reads, used].                                        *)

GarbageAt(g, k) ==
    IF k <= Len(g.pairs) THEN g.pairs[k] ELSE [c |-> 0, f |-> Zero]

RECURSIVE ReadPairs(_, _, _, _)
ReadPairs(file, g, h, left) ==
    IF left = 0 THEN h
    ELSE LET rc == StreamRead(file, h.s, 1)
             rf == StreamRead(file, rc.s, UnsignedBytes)
             failed == ~rc.ok \/ ~rf.ok
             used == IF failed THEN h.used + 1 ELSE h.used
             character == IF rc.ok THEN rc.bytes[1] ELSE GarbageAt(g, used).c
             frequency == IF rf.ok THEN FromBytes(rf.bytes)
                          ELSE GarbageAt(g, used).f
         IN  ReadPairs(file, g,
                       [fm |-> MapPut(h.fm, character, frequency), s |-> rf.s,
                        reads |-> h.reads + 2, used |-> used,
                        sizeOk |-> h.sizeOk],
                       left - 1)

readHeader(fm, file, g) ==
    LET rs == StreamRead(file, [pos |-> 0, good |-> TRUE], SizeTBytes)
        mapSize == IF rs.ok THEN ToNat(FromBytes(rs.bytes)) ELSE g.size
    IN  ReadPairs(file, g,
                  [fm |-> EmptyMap, s |-> rs.s, reads |-> 1, used |-> 0,
                   sizeOk |-> rs.ok],
                  mapSize)

----------------------------------------------------------------------------
(* decodeData, on d = [s, currentNode, decodedCount, out, walked, ub]      *)
(* walked counts the bits that moved the cursor; ub is set when the cursor *)
(* is dereferenced while null.                                             *)

RECURSIVE SumFrequencies(_, _)
SumFrequencies(fm, keys) ==
    IF keys = <<>> THEN Zero
    ELSE Add(fm[Head(keys)], SumFrequencies(fm, Tail(keys)))

\* long long totalChars: 256 counts below 2^32 never overflow it
TotalChars(fm) == SumFrequencies(fm, MapKeys(fm))

\* for (int i = 7; i >= 0; --i)
RECURSIVE DecodeBits(_, _, _, _, _, _)
DecodeBits(ns, root, total, byte, i, d) ==
    IF i < 0 \/ ~Less(FromNat(d.decodedCount), total) \/ d.ub THEN d
    ELSE IF d.currentNode = 0 THEN [d EXCEPT !.ub = TRUE]
    ELSE LET bit == (byte \div 2 ^ i) % 2
             next == IF bit = 0 THEN ns[d.currentNode].left
                     ELSE ns[d.currentNode].right
             d1 == [d EXCEPT !.walked = d.walked + 1]
         IN  IF next /= 0 /\ IsLeaf(ns[next])
             THEN DecodeBits(ns, root, total, byte, i - 1,
                     [d1 EXCEPT !.out = Append(d.out, ns[next].data),
                                !.decodedCount = d.decodedCount + 1,
                                !.currentNode = root])
             ELSE DecodeBits(ns, root, total, byte, i - 1,
                     [d1 EXCEPT !.currentNode = next])

\* while (inputFile.get(byte) && decodedCount < totalChars)
RECURSIVE DecodeLoop(_, _, _, _, _)
DecodeLoop(file, ns, root, total, d) ==
    LET r == StreamRead(file, d.s, 1) IN
    IF ~r.ok \/ d.ub THEN [d EXCEPT !.s = r.s]
    ELSE IF ~Less(FromNat(d.decodedCount), total) THEN [d EXCEPT !.s = r.s]
    ELSE DecodeLoop(file, ns, root, total,
            DecodeBits(ns, root, total, r.bytes[1], 7, [d EXCEPT !.s = r.s]))

decodeData(file, s, fm, ns, root) ==
    LET total == TotalChars(fm)
        d0 == [s |-> s, currentNode |-> root, decodedCount |-> 0,
               out |-> <<>>, walked |-> 0, ub |-> FALSE]
    IN  IF total = Zero THEN d0 ELSE DecodeLoop(file, ns, root, total, d0)

----------------------------------------------------------------------------
(* compress and decompress, on this = [frequencyMap, huffmanCodes, nodes,  *)
(* treeRoot], the fields of one HuffmanCoding object.  Both files open.    *)

NewInstance ==
    [frequencyMap |-> EmptyMap, huffmanCodes |-> EmptyMap,
     nodes |-> <<>>, treeRoot |-> 0]

compress(this, input) ==
    LET fm == buildFrequencyTable(this.frequencyMap, input) IN
    IF DOMAIN fm = {}
    THEN [this |-> [this EXCEPT !.frequencyMap = fm], out |-> <<>>,
          message |-> "Input file is empty. Creating an empty compressed file."]
    ELSE LET t == buildHuffmanTree(fm)
             codes == generateCodes(t.nodes, t.root, <<>>, this.huffmanCodes)
             header == writeHeader(fm)
             data == writeCompressedData(codes, input)
         IN  [this |-> [frequencyMap |-> fm, huffmanCodes |-> data.codes,
                        nodes |-> t.nodes, treeRoot |-> t.root],
              out |-> header \o data.out,
              message |-> "Compression successful!"]

decompress(this, file, g) ==
    LET h == readHeader(this.frequencyMap, file, g)
        t == buildHuffmanTree(h.fm)
        d == decodeData(file, h.s, h.fm, t.nodes, t.root)
    IN  [this |-> [frequencyMap |-> h.fm, huffmanCodes |-> this.huffmanCodes,
                   nodes |-> t.nodes, treeRoot |-> t.root],
         out |-> d.out,
         message |-> IF d.ub THEN "undefined behaviour: null currentNode"
                     ELSE "Decompression successful!",
         h |-> h, d |-> d]

----------------------------------------------------------------------------
(* The indeterminate values an uninitialized local can hold *)

GarbagePairs == {[c |-> 97, f |-> Zero], [c |-> 200, f |-> FromNat(5)]}

NoGarbage == [size |-> 0, pairs |-> <<>>]

\* the choices of exactly the indeterminate values reading `file` consumes:
\* a mapSize when the count field is cut short, and one pair for each
\* iteration with a failed read
GarbageChoices(file) ==
    LET Probe(n) == readHeader(EmptyMap, file, [size |-> n, pairs |-> <<>>])
        sizes == IF Probe(0).sizeOk THEN {0} ELSE 0 .. MaxGarbageSize
    IN  UNION {{[size |-> n, pairs |-> p] :
                    p \in [1 .. Probe(n).used -> GarbagePairs]} : n \in sizes}

----------------------------------------------------------------------------
(* The files and the record of a call *)

Inputs == UNION {[1 .. n -> Symbols] : n \in 0 .. MaxLen}

NoCall ==
    [op |-> "none", input |-> <<>>, output |-> <<>>, message |-> "",
     g |-> NoGarbage, reads |-> 0, sizeOk |-> TRUE, used |-> 0,
     expected |-> Zero, decodedCount |-> 0, walked |-> 0]

CompressCall(input, r) ==
    [NoCall EXCEPT !.op = "compress", !.input = input, !.output = r.out,
                   !.message = r.message]

DecompressCall(file, g, r) ==
    [op |-> "decompress", input |-> file, output |-> r.out,
     message |-> r.message, g |-> g, reads |-> r.h.reads,
     sizeOk |-> r.h.sizeOk, used |-> r.h.used,
     expected |-> TotalChars(r.h.fm), decodedCount |-> r.d.decodedCount,
     walked |-> r.d.walked]

\* what the last compress read and wrote, with the tree and codes it used
DiskAfter(input, r) ==
    [plain |-> input, archive |-> r.out, made |-> TRUE,
     frequencyMap |-> r.this.frequencyMap, nodes |-> r.this.nodes,
     treeRoot |-> r.this.treeRoot, codes |-> r.this.huffmanCodes]

This == [frequencyMap |-> frequencyMap, huffmanCodes |-> huffmanCodes,
         nodes |-> nodes, treeRoot |-> treeRoot]

SetThis(t) ==
    /\ frequencyMap' = t.frequencyMap
    /\ huffmanCodes' = t.huffmanCodes
    /\ nodes' = t.nodes
    /\ treeRoot' = t.treeRoot

StepwiseIdle ==
    /\ pc = "idle" /\ pq = <<>> /\ occ = EmptyMap /\ todo = <<>>
    /\ merges = <<>> /\ totalChars = Zero

NoInstance ==
    /\ frequencyMap = EmptyMap /\ huffmanCodes = EmptyMap
    /\ nodes = <<>> /\ treeRoot = 0

\* the input file `plain`, and no compressed file written yet
DiskWith(input) ==
    [plain |-> input, archive |-> <<>>, made |-> FALSE,
     frequencyMap |-> EmptyMap, nodes |-> <<>>, treeRoot |-> 0, codes |-> EmptyMap]

----------------------------------------------------------------------------
(* Spec: the program as main() runs it, on an input file drawn at the    *)
(* start.  Each run constructs a HuffmanCoding object and makes one call:  *)
(* compress of the input file, and then decompress of the file that        *)
(* compress wrote, whole or cut short.  The runs share nothing but the     *)
(* files, so a further decompress run reaches no state that the first      *)
(* does not reach.                                                         *)

Init ==
    /\ NoInstance
    /\ call = NoCall
    /\ disk \in {DiskWith(input) : input \in Inputs}
    /\ StepwiseIdle

RunCompress ==
    LET r == compress(NewInstance, disk.plain) IN
    /\ SetThis(r.this)
    /\ call' = CompressCall(disk.plain, r)
    /\ disk' = DiskAfter(disk.plain, r)
    /\ UNCHANGED <<pc, pq, occ, todo, merges, totalChars>>

RunDecompress ==
    /\ disk.made
    /\ call.op = "compress"
    /\ \E n \in 0 .. Len(disk.archive) :
         LET file == SubSeq(disk.archive, 1, n) IN
         \E g \in GarbageChoices(file) :
             LET r == decompress(NewInstance, file, g) IN
             /\ SetThis(r.this)
             /\ call' = DecompressCall(file, g, r)
             /\ UNCHANGED <<disk, pc, pq, occ, todo, merges, totalChars>>

Next == RunCompress \/ RunDecompress

Spec == Init /\ [][Next]_vars

----------------------------------------------------------------------------
(* SpecSteps: compress and the decoder's count, step by step, on inputs    *)
(* given by the number of occurrences of each symbol, so that inputs of    *)
(* 2^32 bytes and more are within reach.  The order of the input's bytes   *)
(* plays no part in these steps.                                           *)

\* 2^31, 2^32 - 1 and 2^32
Pow31 == [i \in 1 .. WideLimbs |-> IF i = 2 THEN LimbBase \div 2 ELSE 0]
MaxUnsigned == [i \in 1 .. WideLimbs |-> IF i <= 2 THEN LimbBase - 1 ELSE 0]
Pow32 == [i \in 1 .. WideLimbs |-> IF i = 3 THEN 1 ELSE 0]

OccValues == {FromNat(n) : n \in 0 .. MaxOcc} \cup {Pow31, MaxUnsigned, Pow32}

RECURSIVE SumOcc(_, _)
SumOcc(o, S) ==
    IF S = {} THEN Zero
    ELSE LET c == CHOOSE x \in S : TRUE IN Add(o[c], SumOcc(o, S \ {c}))

\* the number of bytes of the input
InputLength == SumOcc(occ, DOMAIN occ)

\* buildFrequencyTable on an input holding o[c] bytes c
RECURSIVE CountOcc(_, _, _)
CountOcc(fm, o, keys) ==
    IF keys = <<>> THEN fm
    ELSE LET c == Head(keys)
         IN  CountOcc(IF o[c] = Zero THEN fm ELSE CountRun(fm, c, o[c]),
                      o, Tail(keys))

InitSteps ==
    /\ NoInstance
    /\ call = NoCall
    /\ disk = DiskWith(<<>>)
    /\ pc = "count" /\ pq = <<>> /\ todo = <<>> /\ merges = <<>>
    /\ totalChars = Zero
    /\ occ \in [Symbols -> OccValues]

\* compress: buildFrequencyTable, and the return on an empty table
StepCount ==
    /\ pc = "count"
    /\ frequencyMap' = CountOcc(EmptyMap, occ, MapKeys(occ))
    /\ todo' = MapKeys(frequencyMap')
    /\ pc' = IF DOMAIN frequencyMap' = {} THEN "done" ELSE "leaves"
    /\ UNCHANGED <<huffmanCodes, nodes, treeRoot, call, disk, pq, occ,
                   merges, totalChars>>

\* buildHuffmanTree: one leaf pushed
StepLeaf ==
    /\ pc = "leaves" /\ todo /= <<>>
    /\ LET b == LeafStep([nodes |-> nodes, pq |-> pq], Head(todo),
                         frequencyMap[Head(todo)])
       IN  nodes' = b.nodes /\ pq' = b.pq
    /\ todo' = Tail(todo)
    /\ UNCHANGED <<frequencyMap, huffmanCodes, treeRoot, call, disk, pc, occ,
                   merges, totalChars>>

\* buildHuffmanTree: pq.size() == 1, the dummy parent
StepDummy ==
    /\ pc = "leaves" /\ todo = <<>> /\ Len(pq) = 1
    /\ LET b == DummyParentStep([nodes |-> nodes, pq |-> pq])
       IN  nodes' = b.nodes /\ pq' = b.pq
    /\ pc' = "loop"
    /\ UNCHANGED <<frequencyMap, huffmanCodes, treeRoot, call, disk, occ,
                   todo, merges, totalChars>>

\* buildHuffmanTree: pq.size() /= 1, straight to the main loop
StepNoDummy ==
    /\ pc = "leaves" /\ todo = <<>> /\ Len(pq) > 1
    /\ pc' = "loop"
    /\ UNCHANGED <<frequencyMap, huffmanCodes, nodes, treeRoot, call, disk,
                   pq, occ, todo, merges, totalChars>>

\* buildHuffmanTree: one merge; `merges` keeps what it took and what it left
StepMerge ==
    /\ pc = "loop" /\ Len(pq) > 1
    /\ LET b == MergeStep([nodes |-> nodes, pq |-> pq])
           new == Len(b.nodes)
       IN  /\ nodes' = b.nodes /\ pq' = b.pq
           /\ merges' = Append(merges,
                  [left |-> b.nodes[new].left, right |-> b.nodes[new].right,
                   new |-> new, before |-> pq, after |-> b.pq])
    /\ UNCHANGED <<frequencyMap, huffmanCodes, treeRoot, call, disk, pc, occ,
                   todo, totalChars>>

\* buildHuffmanTree: treeRoot = pq.top()
StepRoot ==
    /\ pc = "loop" /\ Len(pq) = 1
    /\ treeRoot' = pq_top(pq)
    /\ pc' = "codes"
    /\ UNCHANGED <<frequencyMap, huffmanCodes, nodes, call, disk, pq, occ,
                   todo, merges, totalChars>>

\* compress: generateCodes(treeRoot, "")
StepCodes ==
    /\ pc = "codes"
    /\ huffmanCodes' = generateCodes(nodes, treeRoot, <<>>, huffmanCodes)
    /\ pc' = "decode"
    /\ UNCHANGED <<frequencyMap, nodes, treeRoot, call, disk, pq, occ, todo,
                   merges, totalChars>>

\* decompress: the table read back from the header compress writes, and
\* decodeData's totalChars, the count its loop stops at
StepTotal ==
    /\ pc = "decode"
    /\ LET h == readHeader(frequencyMap, writeHeader(frequencyMap), NoGarbage)
       IN  /\ frequencyMap' = h.fm
           /\ totalChars' = TotalChars(h.fm)
    /\ pc' = "done"
    /\ UNCHANGED <<huffmanCodes, nodes, treeRoot, call, disk, pq, occ, todo,
                   merges>>

NextSteps ==
    \/ StepCount \/ StepLeaf \/ StepDummy \/ StepNoDummy
    \/ StepMerge \/ StepRoot \/ StepCodes \/ StepTotal

SpecSteps == InitSteps /\ [][NextSteps]_vars

----------------------------------------------------------------------------
(* SpecReuse: one HuffmanCoding object on which compress and decompress    *)
(* are called again and again, the fields left by one call being those the *)
(* next call starts with.  compress takes any input file; decompress takes *)
(* the compressed file on disk, whole, cut inside its bitstream, or        *)
(* emptied.                                                                *)

ReuseInputs == {input \in Inputs : Len(input) <= MaxReuseLen}

InitReuse ==
    /\ NoInstance
    /\ call = NoCall
    /\ disk = DiskWith(<<>>)
    /\ StepwiseIdle

CallCompress ==
    \E input \in ReuseInputs :
        LET r == compress(This, input) IN
        /\ SetThis(r.this)
        /\ call' = CompressCall(input, r)
        /\ disk' = DiskAfter(input, r)
        /\ UNCHANGED <<pc, pq, occ, todo, merges, totalChars>>

CallDecompress ==
    /\ disk.made
    /\ \E n \in {0} \cup (HeaderLength(disk.frequencyMap) .. Len(disk.archive)) :
         LET file == SubSeq(disk.archive, 1, n) IN
         \E g \in GarbageChoices(file) :
             LET r == decompress(This, file, g) IN
             /\ SetThis(r.this)
             /\ call' = DecompressCall(file, g, r)
             /\ UNCHANGED <<disk, pc, pq, occ, todo, merges, totalChars>>

NextReuse == CallCompress \/ CallDecompress

SpecReuse == InitReuse /\ [][NextReuse]_vars

----------------------------------------------------------------------------
(* Properties *)

IsPrefix(a, b) == Len(a) <= Len(b) /\ SubSeq(b, 1, Len(a)) = a

Range(q) == {q[i] : i \in 1 .. Len(q)}

\* the bits of a byte sequence, most significant bit of each byte first
BitsOf(bytes) ==
    [k \in 1 .. 8 * Len(bytes) |->
        (bytes[(k + 7) \div 8] \div 2 ^ (7 - ((k - 1) % 8))) % 2]

\* the codes of the bytes of `input`, one after the other
RECURSIVE CodeBits(_, _)
CodeBits(codes, input) ==
    IF input = <<>> THEN <<>>
    ELSE codes[Head(input)] \o CodeBits(codes, Tail(input))

\* the packed bitstream of the compressed file on disk
ArchiveData ==
    SubSeq(disk.archive, HeaderLength(disk.frequencyMap) + 1,
           Len(disk.archive))

WholeArchiveDecoded ==
    /\ call.op = "decompress"
    /\ disk.archive /= <<>>
    /\ call.input = disk.archive

\* a header whose count field is whole
HeaderCountRead == call.op = "decompress" /\ call.sizeOk

\* a header that ends before it has supplied the pairs its count declares
HeaderCutShort == HeaderCountRead /\ call.used > 0

\* a whole header followed by too few bits for the count it declares
BitstreamCutShort ==
    /\ HeaderCountRead /\ call.used = 0
    /\ IsPrefix(call.input, disk.archive)
    /\ Less(FromNat(call.decodedCount), call.expected)

\* sanity: the round trip on the inputs of Spec
RoundTripSmall == WholeArchiveDecoded => call.output = disk.plain

\* sanity: no call of Spec dereferences a null currentNode
NoNullDereference == call.message /= "undefined behaviour: null currentNode"

(* C1. Round trip: decompress of the file compress wrote gives back the    *)
(* input of compress, whatever the input.  decodeData writes a byte only   *)
(* while decodedCount < totalChars, so its output holds at most totalChars *)
(* bytes: the round trip needs totalChars to be no less than the number of *)
(* bytes of the input.                                                     *)
C1_RoundTrip ==
    pc = "done" => ~Less(totalChars, InputLength)

(* C2. A compressed file whose bitstream is cut short of the bits needed   *)
(* for the declared symbol count makes decompress fail with                *)
(* CorruptStreamError, never end in success with a shorter output.         *)
C2_CorruptStream ==
    BitstreamCutShort => call.message = "CorruptStreamError"

(* C3. A header that ends before the declared count of pairs is supplied   *)
(* makes readHeader fail with MalformedHeaderError; no table is built from *)
(* the missing data and no tree build and decode follow.                   *)
C3_MalformedHeader ==
    HeaderCutShort => call.message = "MalformedHeaderError"

(* C4. compress of an empty input writes zero bytes; decompress of a       *)
(* zero-byte file writes zero bytes and attempts no read of a header.      *)
C4_EmptyInput ==
    /\ (call.op = "compress" /\ call.input = <<>>) => call.output = <<>>
    /\ (call.op = "decompress" /\ call.input = <<>>) =>
           (call.output = <<>> /\ call.reads = 0)

(* C5. After buildHuffmanTree and generateCodes on a non-empty frequency   *)
(* table, every symbol of the table has one code, the code is not empty,   *)
(* and no symbol's code is a prefix of another symbol's code.              *)
C5_CodeTable ==
    (pc \in {"decode", "done"} /\ DOMAIN frequencyMap /= {}) =>
        /\ DOMAIN huffmanCodes = DOMAIN frequencyMap
        /\ \A c \in DOMAIN huffmanCodes : huffmanCodes[c] /= <<>>
        /\ \A c, d \in DOMAIN huffmanCodes :
              c /= d => ~IsPrefix(huffmanCodes[c], huffmanCodes[d])

\* a table of exactly one symbol has got its code
C5_Witness ==
    /\ pc = "decode"
    /\ Cardinality(DOMAIN frequencyMap) = 1
    /\ \A c \in DOMAIN huffmanCodes : huffmanCodes[c] = <<0>>

(* C6. The tree decompress builds from the table it reads back from the    *)
(* header is the tree compress built from the table it counted: same       *)
(* nodes, same left and right children, so the same codes and the same     *)
(* compressed bytes.                                                       *)
C6_SameTree ==
    WholeArchiveDecoded =>
        /\ nodes = disk.nodes
        /\ treeRoot = disk.treeRoot
        /\ generateCodes(nodes, treeRoot, <<>>, EmptyMap) = disk.codes
        /\ writeHeader(frequencyMap)
             \o writeCompressedData(
                    generateCodes(nodes, treeRoot, <<>>, EmptyMap),
                    disk.plain).out = disk.archive

\* a whole file decoded whose tree has three leaves of equal frequency
C6_Witness ==
    /\ WholeArchiveDecoded
    /\ Cardinality(DOMAIN frequencyMap) = 3
    /\ \A c, d \in DOMAIN frequencyMap : frequencyMap[c] = frequencyMap[d]

(* C7. With n >= 2 symbols every merge takes two nodes than which no node  *)
(* left in the queue has a lower frequency, and inserts an internal node   *)
(* whose frequency is their sum and whose children they are; the build     *)
(* ends after n - 1 merges with one root; the counts 3, 2, 1 give code     *)
(* lengths 1, 2, 2.                                                        *)
C7_GreedyMerge ==
    /\ \A i \in 1 .. Len(merges) :
          LET m == merges[i] IN
          /\ nodes[m.new].frequency
                = Add(nodes[m.left].frequency, nodes[m.right].frequency)
          /\ nodes[m.new].left = m.left /\ nodes[m.new].right = m.right
          /\ m.left /= m.right /\ {m.left, m.right} \subseteq Range(m.before)
          /\ \A k \in Range(m.before) \ {m.left, m.right} :
                /\ ~Less(nodes[k].frequency, nodes[m.left].frequency)
                /\ ~Less(nodes[k].frequency, nodes[m.right].frequency)
          /\ Range(m.after) = (Range(m.before) \ {m.left, m.right}) \cup {m.new}
    /\ (pc \in {"codes", "decode", "done"}
           /\ Cardinality(DOMAIN frequencyMap) >= 2) =>
          /\ Len(merges) = Cardinality(DOMAIN frequencyMap) - 1
          /\ Len(pq) = 1 /\ treeRoot = pq[1]
    /\ (pc = "decode"
           /\ {frequencyMap[c] : c \in DOMAIN frequencyMap}
                 = {FromNat(3), FromNat(2), FromNat(1)}
           /\ Cardinality(DOMAIN frequencyMap) = 3) =>
          \A c \in DOMAIN frequencyMap :
              Len(huffmanCodes[c]) = IF frequencyMap[c] = FromNat(3) THEN 1
                                     ELSE 2

\* sanity: the same with the sum taken as `unsigned` takes it
GreedyMergeModulo ==
    /\ \A i \in 1 .. Len(merges) :
          LET m == merges[i] IN
          /\ nodes[m.new].frequency
                = Unsigned(Add(nodes[m.left].frequency,
                               nodes[m.right].frequency))
          /\ nodes[m.new].left = m.left /\ nodes[m.new].right = m.right
          /\ m.left /= m.right /\ {m.left, m.right} \subseteq Range(m.before)
          /\ \A k \in Range(m.before) \ {m.left, m.right} :
                /\ ~Less(nodes[k].frequency, nodes[m.left].frequency)
                /\ ~Less(nodes[k].frequency, nodes[m.right].frequency)
          /\ Range(m.after) = (Range(m.before) \ {m.left, m.right}) \cup {m.new}
    /\ (pc \in {"codes", "decode", "done"}
           /\ Cardinality(DOMAIN frequencyMap) >= 2) =>
          /\ Len(merges) = Cardinality(DOMAIN frequencyMap) - 1
          /\ Len(pq) = 1 /\ treeRoot = pq[1]
    /\ (pc = "decode"
           /\ {frequencyMap[c] : c \in DOMAIN frequencyMap}
                 = {FromNat(3), FromNat(2), FromNat(1)}
           /\ Cardinality(DOMAIN frequencyMap) = 3) =>
          \A c \in DOMAIN frequencyMap :
              Len(huffmanCodes[c]) = IF frequencyMap[c] = FromNat(3) THEN 1
                                     ELSE 2

(* C8. For a non-empty input the frequency at the tree root is the number  *)
(* of bytes of the input, which is the sum over the frequency table and    *)
(* the total the decoder computes.                                         *)
C8_RootTotal ==
    (pc = "done" /\ InputLength /= Zero) =>
        /\ treeRoot /= 0
        /\ nodes[treeRoot].frequency = InputLength
        /\ TotalChars(frequencyMap) = InputLength
        /\ totalChars = InputLength

C10_NoCarriedState ==
    /\ call.op = "compress" =>
          call.output = compress(NewInstance, call.input).out
    /\ call.op = "decompress" =>
          call.output = decompress(NewInstance, call.input, call.g).out

\* a compress that wrote a file while the object still held the code of a
\* symbol of an earlier input
C10_Witness ==
    /\ call.op = "compress"
    /\ call.output /= <<>>
    /\ DOMAIN huffmanCodes /= DOMAIN frequencyMap

====
